---------------------------- MODULE Spec2Model ----------------------------
(***************************************************************************)
(* nesify: reduction of an image to the NES palette.  The module models    *)
(* the hardware color table and nearest-color matching (nesPalette.js),    *)
(* the tile partitioner, the subpalette enumerator and the nesify          *)
(* pipeline (index.js), and the comparators of sort.js.                    *)
(*                                                                         *)
(* JavaScript values are modelled as follows.                              *)
(*   string        a sequence of one-character strings                     *)
(*   color         a record [t, v, id]: t = "str" for a string color with  *)
(*                 v its characters, t = "arr" for an [r,g,b] array with   *)
(*                 v = <<r,g,b>>, t = "undef" for undefined.  id is the    *)
(*                 identity of an array object (0 for the other types), so *)
(*                 that record equality is JavaScript's ===.               *)
(***************************************************************************)
EXTENDS Integers, Sequences, FiniteSets, TLC

(***************************************************************************)
(* sort.js                                                                 *)
(***************************************************************************)
SORT_A_B_EQUAL == 0
SORT_A_FIRST == -1
SORT_B_FIRST == 1

\* comparatorAscending on numbers
comparatorAscending(a, b) ==
  IF a = b THEN SORT_A_B_EQUAL
  ELSE IF a < b THEN SORT_A_FIRST ELSE SORT_B_FIRST

\* comparatorDescending on numbers
comparatorDescending(a, b) ==
  IF a = b THEN SORT_A_B_EQUAL
  ELSE IF a > b THEN SORT_A_FIRST ELSE SORT_B_FIRST

(***************************************************************************)
(* Array.prototype.sort with a consistent comparator cmp(a, b): the stable *)
(* sort.  An element's place is the number of elements that sort before    *)
(* it, elements that compare equal keeping their order.                    *)
(***************************************************************************)
ArraySort(s, cmp(_, _)) ==
  LET before(i) == {j \in 1..Len(s) :
                      \/ cmp(s[j], s[i]) < 0
                      \/ (j < i /\ cmp(s[j], s[i]) = 0)}
      place == [i \in 1..Len(s) |-> Cardinality(before(i)) + 1] \o <<>>
  IN  [p \in 1..Len(s) |-> s[CHOOSE i \in 1..Len(s) : place[i] = p]] \o <<>>

\* small sequence helpers
RECURSIVE SeqSum(_)
SeqSum(s) == IF s = <<>> THEN 0 ELSE s[1] + SeqSum(Tail(s))

RECURSIVE Flatten(_)
Flatten(ss) == IF ss = <<>> THEN <<>> ELSE ss[1] \o Flatten(Tail(ss))

Range(s) == {s[i] : i \in 1..Len(s)}

\* Array.prototype.indexOf (0-based, -1 when absent), comparing with ===
IndexOf(s, e) ==
  IF \E i \in 1..Len(s) : s[i] = e
  THEN (CHOOSE i \in 1..Len(s) : s[i] = e /\ \A j \in 1..(i - 1) : s[j] # e) - 1
  ELSE -1

(***************************************************************************)
(* nesPalette.js: the hardware color table                                 *)
(***************************************************************************)
COLORS_PER_SUBPALETTE == 4
SUBPALETTES_PER_IMAGE == 4

CANONICAL_BLACK == <<"0", "f">>

\* the object literal, in source order: <<key, value>>
nesPaletteEntries ==
  <<
     << <<"0","0">>, <<"#","7","c","7","c","7","c">> >>,
     << <<"0","1">>, <<"#","0","9","2","3","f","8">> >>,
     << <<"0","2">>, <<"#","0","4","1","7","b","9">> >>,
     << <<"0","3">>, <<"#","4","4","3","0","b","9">> >>,
     << <<"0","4">>, <<"#","9","2","0","f","8","2">> >>,
     << <<"0","5">>, <<"#","a","6","0","4","2","4">> >>,
     << <<"0","6">>, <<"#","a","6","1","2","0","d">> >>,
     << <<"0","7">>, <<"#","8","6","1","5","0","8">> >>,
     << <<"0","8">>, <<"#","4","f","2","f","0","4">> >>,
     << <<"0","9">>, <<"#","0","c","7","7","0","f">> >>,
     << <<"0","a">>, <<"#","0","9","6","7","0","b">> >>,
     << <<"0","b">>, <<"#","0","6","5","7","0","7">> >>,
     << <<"0","c">>, <<"#","0","3","4","0","5","7">> >>,
     << <<"0","d">>, <<"#","0","0","0","0","0","0">> >>,
     << <<"0","e">>, <<"#","0","0","0","0","0","0">> >>,
     << <<"0","f">>, <<"#","0","0","0","0","0","0">> >>,
     << <<"1","0">>, <<"#","b","c","b","c","b","c">> >>,
     << <<"1","1">>, <<"#","1","4","7","c","f","5">> >>,
     << <<"1","2">>, <<"#","0","f","5","e","f","4">> >>,
     << <<"1","3">>, <<"#","6","8","4","d","f","8">> >>,
     << <<"1","4">>, <<"#","d","6","1","e","c","a">> >>,
     << <<"1","5">>, <<"#","e","2","0","e","5","a">> >>,
     << <<"1","6">>, <<"#","f","5","3","a","1","b">> >>,
     << <<"1","7">>, <<"#","e","2","5","c","2","2">> >>,
     << <<"1","8">>, <<"#","a","b","7","b","1","9">> >>,
     << <<"1","9">>, <<"#","1","a","b","6","1","e">> >>,
     << <<"1","a">>, <<"#","1","7","a","6","1","a">> >>,
     << <<"1","b">>, <<"#","1","7","a","7","4","9">> >>,
     << <<"1","c">>, <<"#","1","2","8","8","8","7">> >>,
     << <<"1","d">>, <<"#","0","0","0","0","0","0">> >>,
     << <<"1","e">>, <<"#","0","0","0","0","0","0">> >>,
     << <<"1","f">>, <<"#","0","0","0","0","0","0">> >>,
     << <<"2","0">>, <<"#","f","8","f","8","f","8">> >>,
     << <<"2","1">>, <<"#","4","4","b","d","f","a">> >>,
     << <<"2","2">>, <<"#","6","a","8","b","f","9">> >>,
     << <<"2","3">>, <<"#","9","8","7","c","f","5">> >>,
     << <<"2","4">>, <<"#","f","6","7","d","f","6">> >>,
     << <<"2","5">>, <<"#","f","6","5","b","9","8">> >>,
     << <<"2","6">>, <<"#","f","6","7","8","5","d">> >>,
     << <<"2","7">>, <<"#","f","a","9","f","4","e">> >>,
     << <<"2","8">>, <<"#","f","7","b","7","2","a">> >>,
     << <<"2","9">>, <<"#","b","a","f","6","3","8">> >>,
     << <<"2","a">>, <<"#","5","d","d","6","5","b">> >>,
     << <<"2","b">>, <<"#","6","0","f","6","9","b">> >>,
     << <<"2","c">>, <<"#","2","7","e","7","d","8">> >>,
     << <<"2","d">>, <<"#","7","8","7","8","7","8">> >>,
     << <<"2","e">>, <<"#","0","0","0","0","0","0">> >>,
     << <<"2","f">>, <<"#","0","0","0","0","0","0">> >>,
     << <<"3","0">>, <<"#","f","c","f","c","f","c">> >>,
     << <<"3","1">>, <<"#","a","6","e","4","f","b">> >>,
     << <<"3","2">>, <<"#","b","8","b","9","f","6">> >>,
     << <<"3","3">>, <<"#","d","8","b","a","f","6">> >>,
     << <<"3","4">>, <<"#","f","7","b","a","f","7">> >>,
     << <<"3","5">>, <<"#","f","7","a","5","c","0">> >>,
     << <<"3","6">>, <<"#","e","f","d","0","b","2">> >>,
     << <<"3","7">>, <<"#","f","b","d","f","a","b">> >>,
     << <<"3","8">>, <<"#","f","7","d","7","7","e">> >>,
     << <<"3","9">>, <<"#","d","9","f","6","8","0">> >>,
     << <<"3","a">>, <<"#","b","a","f","7","b","a">> >>,
     << <<"3","b">>, <<"#","b","a","f","7","d","9">> >>,
     << <<"3","c">>, <<"#","2","c","f","c","f","b">> >>,
     << <<"3","d">>, <<"#","d","8","d","8","d","8">> >>,
     << <<"3","e">>, <<"#","0","0","0","0","0","0">> >>,
     << <<"3","f">>, <<"#","0","0","0","0","0","0">> >>
  >>

HexDigits == <<"0","1","2","3","4","5","6","7","8","9","a","b","c","d","e","f">>
UpperHex == <<"A","B","C","D","E","F">>

\* value of a lowercase hex digit character
HexVal(c) == (CHOOSE i \in 1..Len(HexDigits) : HexDigits[i] = c) - 1

IsHexChar(c) == \E i \in 1..Len(HexDigits) : HexDigits[i] = c
IsDecimalChar(c) == IsHexChar(c) /\ HexVal(c) < 10

\* String.prototype.toLowerCase, one character
ToLowerChar(c) ==
  IF \E i \in 1..Len(UpperHex) : UpperHex[i] = c
  THEN HexDigits[10 + (CHOOSE i \in 1..Len(UpperHex) : UpperHex[i] = c)]
  ELSE c

\* parseInt(s, 16) of a string of hex digits; NaN (the empty string) acts as 0
\* under the bitwise operators that follow
RECURSIVE ParseHex(_)
ParseHex(s) ==
  IF s = <<>> THEN 0 ELSE 16 * ParseHex(SubSeq(s, 1, Len(s) - 1)) + HexVal(s[Len(s)])

\* nesPalette[key]: undefined for a key the literal does not hold
NesKeys == {nesPaletteEntries[i][1] : i \in 1..Len(nesPaletteEntries)}
StrColor(chars) == [t |-> "str", v |-> chars, id |-> 0]
ArrColor(rgb, ident) == [t |-> "arr", v |-> rgb, id |-> ident]
Undefined == [t |-> "undef", v |-> <<>>, id |-> 0]

nesPaletteByKey ==
  [key \in NesKeys |->
     nesPaletteEntries[
       CHOOSE i \in 1..Len(nesPaletteEntries) : nesPaletteEntries[i][1] = key][2]]

nesPalette(key) ==
  IF key \in NesKeys THEN StrColor(nesPaletteByKey[key]) ELSE Undefined

(***************************************************************************)
(* JavaScript objects used as maps: a sequence of <<key, value>> entries   *)
(* in insertion order.  Object.keys lists integer-like keys (canonical     *)
(* decimal strings) first, then the other keys in insertion order.         *)
(***************************************************************************)
MapHas(m, k) == \E i \in 1..Len(m) : m[i][1] = k
MapGet(m, k) == m[CHOOSE i \in 1..Len(m) : m[i][1] = k][2]
MapPut(m, k, val) ==
  IF MapHas(m, k)
  THEN LET i == CHOOSE j \in 1..Len(m) : m[j][1] = k
       IN  SubSeq(m, 1, i - 1) \o << <<k, val>> >> \o SubSeq(m, i + 1, Len(m))
  ELSE Append(m, <<k, val>>)
MapDelete(m, k) == SelectSeq(m, LAMBDA e : e[1] # k)
MapValues(m) == [i \in 1..Len(m) |-> m[i][2]] \o <<>>

IsIndexKey(k) ==
  /\ Len(k) > 0
  /\ \A i \in 1..Len(k) : IsDecimalChar(k[i])
  /\ (Len(k) = 1 \/ k[1] # "0")

\* Object.keys: the integer-like keys of the maps modelled here are inserted
\* in ascending order, so selecting them keeps them ascending
ObjectKeys(m) ==
  LET ks == [i \in 1..Len(m) |-> m[i][1]] \o <<>>
  IN  SelectSeq(ks, IsIndexKey) \o SelectSeq(ks, LAMBDA k : ~IsIndexKey(k))

\* lodash invert: result[value] = key for each key in Object.keys order, so a
\* value enters the result where it first occurs and ends with its last key
invert(m) ==
  LET ks == ObjectKeys(m)
      vals == [i \in 1..Len(ks) |-> MapGet(m, ks[i])] \o <<>>
      idx == [i \in 1..Len(ks) |-> i] \o <<>>
      firsts == SelectSeq(idx, LAMBDA i : \A j \in 1..(i - 1) : vals[j] # vals[i])
      last(val) == CHOOSE i \in 1..Len(ks) :
                     vals[i] = val /\ \A j \in (i + 1)..Len(ks) : vals[j] # val
  IN  [n \in 1..Len(firsts) |-> <<vals[firsts[n]], ks[last(vals[firsts[n]])]>>] \o <<>>

nesPaletteObject == nesPaletteEntries

\* the inverted table without the canonical black put back
nesPaletteInvertedLastBlack == invert(nesPaletteObject)

\* the hex colors mapped back to the enumeration, respecting the canonical black
nesPaletteInverted ==
  MapPut(invert(nesPaletteObject), nesPalette(CANONICAL_BLACK).v, CANONICAL_BLACK)

(***************************************************************************)
(* Color conversion                                                        *)
(***************************************************************************)
\* normalizeColor: the [r,g,b] channels of a color in whatever format
normalizeColor(anyColor) ==
  IF anyColor.t = "arr" THEN anyColor.v
  ELSE LET lowered == [i \in 1..Len(anyColor.v) |-> ToLowerChar(anyColor.v[i])]
           stripped == IF anyColor.t = "str" THEN SelectSeq(lowered, IsHexChar)
                       ELSE <<>>
           doubled == IF Len(stripped) = 3
                      THEN <<stripped[1], stripped[1], stripped[2], stripped[2],
                             stripped[3], stripped[3]>>
                      ELSE stripped
           color == ParseHex(doubled)
       IN  <<(color \div 65536) % 256, (color \div 256) % 256, color % 256>>

\* rgb2hex of color-functions: six lowercase hex digits
rgb2hex(r, g, b) ==
  <<HexDigits[(r \div 16) + 1], HexDigits[(r % 16) + 1],
    HexDigits[(g \div 16) + 1], HexDigits[(g % 16) + 1],
    HexDigits[(b \div 16) + 1], HexDigits[(b % 16) + 1]>>

\* normalizeColorHex: the #rrggbb string of a color
normalizeColorHex(anyColor) ==
  LET c == normalizeColor(anyColor) IN <<"#">> \o rgb2hex(c[1], c[2], c[3])

\* Math.sqrt in fixed point: floor(1024 * sqrt(n)), exact for perfect squares
\* and strictly increasing on 0 .. 2 * 255^2
RECURSIVE ISqrtSearch(_, _, _)
ISqrtSearch(n, lo, hi) ==
  IF lo >= hi THEN lo
  ELSE LET mid == (lo + hi + 1) \div 2
       IN  IF mid * mid <= n THEN ISqrtSearch(n, mid, hi)
           ELSE ISqrtSearch(n, lo, mid - 1)

RECURSIVE FracSearch(_, _, _, _)
FracSearch(q, rest, lo, hi) ==
  IF lo >= hi THEN lo
  ELSE LET mid == (lo + hi + 1) \div 2
       IN  IF 2048 * q * mid + mid * mid <= rest * 1048576
           THEN FracSearch(q, rest, mid, hi)
           ELSE FracSearch(q, rest, lo, mid - 1)

MathSqrtSearch(n) ==
  LET q == ISqrtSearch(n, 0, 361)
  IN  1024 * q + FracSearch(q, n - q * q, 0, 1023)

\* the table's colors as [r,g,b], and the square roots of the sums of the
\* squares of two channels' differences between them, computed once
nesPaletteRgb == {normalizeColor(StrColor(nesPaletteEntries[i][2])) :
                    i \in 1..Len(nesPaletteEntries)}
nesPaletteRoots ==
  [n \in {(a[1] - b[1]) * (a[1] - b[1]) + (a[2] - b[2]) * (a[2] - b[2]) :
            a \in nesPaletteRgb, b \in nesPaletteRgb} |-> MathSqrtSearch(n)]

MathSqrt(n) ==
  IF n \in DOMAIN nesPaletteRoots THEN nesPaletteRoots[n] ELSE MathSqrtSearch(n)

\* colorDistance: the third term subtracts colorB[2] from itself
colorDistance(a, b) ==
  LET colorA == normalizeColor(a)
      colorB == normalizeColor(b)
  IN  MathSqrt(((colorA[1] - colorB[1]) * (colorA[1] - colorB[1])) +
               ((colorA[2] - colorB[2]) * (colorA[2] - colorB[2])) +
               ((colorB[3] - colorB[3]) * (colorB[3] - colorB[3])))

\* JavaScript's < on strings of the characters used in color keys
CharRank(c) == IF IsHexChar(c) THEN HexVal(c) + 1 ELSE 0
RECURSIVE StringLess(_, _)
StringLess(a, b) ==
  IF b = <<>> THEN FALSE
  ELSE IF a = <<>> THEN TRUE
  ELSE IF a[1] = b[1] THEN StringLess(Tail(a), Tail(b))
  ELSE CharRank(a[1]) < CharRank(b[1])

\* comparatorAscending on strings
comparatorAscendingStr(a, b) ==
  IF a = b THEN SORT_A_B_EQUAL
  ELSE IF StringLess(a, b) THEN SORT_A_FIRST ELSE SORT_B_FIRST

BlackHex == <<"#","0","0","0","0","0","0">>
BoolNum(x) == IF x THEN 1 ELSE 0

\* nesColors: the unique hex colors, black first
nesColors ==
  ArraySort(ObjectKeys(nesPaletteInverted),
            LAMBDA a, b : comparatorAscending(BoolNum(a # BlackHex), BoolNum(b # BlackHex)))

\* the body of nesColorMatch, without the memoize cache
nesColorMatchCompute(findColor) ==
  LET hex == normalizeColorHex(findColor)
      distances ==
        ArraySort([i \in 1..Len(ObjectKeys(nesPaletteInverted)) |->
                     LET nesHex == ObjectKeys(nesPaletteInverted)[i]
                     IN  [key |-> MapGet(nesPaletteInverted, nesHex),
                          distance |-> colorDistance(StrColor(hex), StrColor(nesHex))]]
                  \o <<>>,
                  LAMBDA a, b : comparatorAscending(a.distance, b.distance))
  IN  IF MapHas(nesPaletteInverted, hex)
      THEN MapGet(nesPaletteInverted, hex)
      ELSE distances[1].key

(***************************************************************************)
(* nesColorMatch = memoize(body): the cache is keyed by the argument       *)
(* itself (a string by value, an array by identity).                       *)
(***************************************************************************)
VARIABLES matchArg, matchCache, matchLog

matchVars == <<matchArg, matchCache, matchLog>>

MaxCalls == 2

\* the table's own colors, as the strings the table holds and as arrays
TableStrings == {nesPalette(k) : k \in NesKeys}
ArrayKeys == {<<"0","d">>, <<"1","6">>, <<"2","a">>}
TableArrays == {ArrColor(normalizeColor(nesPalette(k)), 1) : k \in ArrayKeys}
\* colors that are not in the table: nearly black, pure blue
OtherArrays == {ArrColor(<<1, 1, 1>>, 1), ArrColor(<<0, 0, 255>>, 1)}
MatchInputs == TableStrings \cup TableArrays \cup OtherArrays

\* a run calls nesColorMatch on one color, again and again
MatchInit ==
  /\ matchArg \in MatchInputs
  /\ matchCache = <<>>
  /\ matchLog = <<>>

MatchIdle ==
  /\ matchArg = Undefined
  /\ matchCache = <<>>
  /\ matchLog = <<>>

\* one call of the memoized nesColorMatch
NesColorMatchCall ==
  /\ Len(matchLog) < MaxCalls
  /\ LET result == IF MapHas(matchCache, matchArg)
                   THEN MapGet(matchCache, matchArg)
                   ELSE nesColorMatchCompute(matchArg)
     IN  /\ matchCache' = MapPut(matchCache, matchArg, result)
         /\ matchLog' = Append(matchLog, [arg |-> matchArg, result |-> result])
  /\ UNCHANGED matchArg

(***************************************************************************)
(* index.js: image data and the tile partitioner.  An ImageData is a       *)
(* record [width, height, data], data the RGBA bytes in row-major order.   *)
(***************************************************************************)
RGBA_BYTES == 4
rgbaOffset(offset) == offset * RGBA_BYTES

\* new ImageData(sw, sh): all bytes 0
NewImageData(sw, sh) ==
  [width |-> sw, height |-> sh, data |-> [k \in 1..rgbaOffset(sw * sh) |-> 0]]

\* TypedArray.prototype.slice(start, end), 0-based, clamped to the array
TypedSlice(data, start, end) ==
  LET s == IF start > Len(data) THEN Len(data) ELSE start
      e == IF end > Len(data) THEN Len(data) ELSE end
  IN  IF e <= s THEN <<>> ELSE SubSeq(data, s + 1, e)

\* TypedArray.prototype.set(source, offset), 0-based
TypedSet(data, source, offset) ==
  [k \in 1..Len(data) |->
     IF k > offset /\ k <= offset + Len(source) THEN source[k - offset] ELSE data[k]]

\* getImageDataSubsection: the loop over the rows of the subsection
getImageDataSubsection(imgData, sx, sy, sw, sh) ==
  LET rows[y \in 0..sh] ==
        IF y = 0 THEN NewImageData(sw, sh).data
        ELSE LET start == rgbaOffset(sx + ((sy + (y - 1)) * imgData.width))
                 length == rgbaOffset(sw)
                 offset == rgbaOffset((y - 1) * sw)
             IN  TypedSet(rows[y - 1],
                          TypedSlice(imgData.data, start, start + length), offset)
  IN  [width |-> sw, height |-> sh, data |-> rows[sh] \o <<>>]

\* Math.floor(a / b): the tile count a rounding slip would give
MathFloorDiv(a, b) == a \div b

\* Math.ceil(a / b) for positive integers
MathCeilDiv(a, b) == (a + b - 1) \div b

\* splitIntoTiles: the outer loop over y, the inner loop over x
splitIntoTiles(imgData, tileWidth, tileHeight) ==
  LET tilesX == MathCeilDiv(imgData.width, tileWidth)
      tilesY == MathCeilDiv(imgData.height, tileHeight)
      tile(x, y) ==
        LET srcPosition == <<x * tileWidth, y * tileHeight, tileWidth, tileHeight>>
        IN  [x |-> x, y |-> y,
             srcPosition |-> srcPosition,
             srcImgData |-> getImageDataSubsection(imgData, srcPosition[1],
                                                   srcPosition[2], srcPosition[3],
                                                   srcPosition[4])]
      row(y) == [i \in 1..tilesX |-> tile(i - 1, y)] \o <<>>
  IN  Flatten([j \in 1..tilesY |-> row(j - 1)] \o <<>>)

(***************************************************************************)
(* The partitioner on its own: an image of any size up to MaxImage and a   *)
(* tile size up to MaxTile, and the 16x16 image with 8x8 tiles.  Every     *)
(* byte of the image holds its own position (1-based) in the data, so a    *)
(* copied byte tells where it was read, and 0 is a byte never written.     *)
(***************************************************************************)
VARIABLES partImage, partTile, partTiles, partDone

partVars == <<partImage, partTile, partTiles, partDone>>

MaxImage == 4
MaxTile == 3

PositionImage(w, h) ==
  [width |-> w, height |-> h, data |-> [k \in 1..rgbaOffset(w * h) |-> k]]

PartInputs ==
  ((1..MaxImage) \X (1..MaxImage) \X (1..MaxTile) \X (1..MaxTile))
    \cup {<<16, 16, 8, 8>>}

PartInit ==
  /\ \E c \in PartInputs :
       /\ partImage = PositionImage(c[1], c[2])
       /\ partTile = <<c[3], c[4]>>
  /\ partTiles = <<>>
  /\ partDone = FALSE

PartIdle ==
  /\ partImage = PositionImage(1, 1)
  /\ partTile = <<1, 1>>
  /\ partTiles = <<>>
  /\ partDone = TRUE

SplitIntoTilesCall ==
  /\ ~partDone
  /\ partTiles' = splitIntoTiles(partImage, partTile[1], partTile[2])
  /\ partDone' = TRUE
  /\ UNCHANGED <<partImage, partTile>>

(***************************************************************************)
(* enumeratePaletteOptions: all maxColors-color variations of a palette    *)
(***************************************************************************)
\* the enumerator with the first color taken from one position too few
RECURSIVE enumerateShortSlice(_, _)
enumerateShortSlice(palette, maxColors) ==
  IF maxColors = 0 THEN <<>>
  ELSE IF maxColors = 1 THEN [i \in 1..Len(palette) |-> <<palette[i]>>] \o <<>>
  ELSE IF Len(palette) <= maxColors THEN <<palette>>
  ELSE LET firsts == SubSeq(palette, 1, Len(palette) - maxColors)
           withFirst(i) ==
             LET restPalette == SubSeq(palette, i + 1, Len(palette))
                 restPaletteOptions == enumerateShortSlice(restPalette, maxColors - 1)
             IN  [n \in 1..Len(restPaletteOptions) |->
                    <<firsts[i]>> \o restPaletteOptions[n]] \o <<>>
       IN  Flatten([i \in 1..Len(firsts) |-> withFirst(i)] \o <<>>)

\* the first color from positions 0..n-k, the rest from what follows it
RECURSIVE enumeratePaletteOptions(_, _)
enumeratePaletteOptions(palette, maxColors) ==
  IF maxColors = 0 THEN <<>>
  ELSE IF maxColors = 1 THEN [i \in 1..Len(palette) |-> <<palette[i]>>] \o <<>>
  ELSE IF Len(palette) <= maxColors THEN <<palette>>
  ELSE LET firsts == SubSeq(palette, 1, (Len(palette) + 1) - maxColors)
           withFirst(i) ==
             LET restPalette == SubSeq(palette, i + 1, Len(palette))
                 restPaletteOptions == enumeratePaletteOptions(restPalette, maxColors - 1)
             IN  [n \in 1..Len(restPaletteOptions) |->
                    <<firsts[i]>> \o restPaletteOptions[n]] \o <<>>
       IN  Flatten([i \in 1..Len(firsts) |-> withFirst(i)] \o <<>>)

(***************************************************************************)
(* The enumerator on its own: every duplicate-free palette of up to        *)
(* MaxPalette colors (colors are opaque here: the numbers 1..MaxPalette)   *)
(* and every maxColors in 0..MaxPalette.                                   *)
(***************************************************************************)
VARIABLES enumPalette, enumMaxColors, enumOptions, enumDone

enumVars == <<enumPalette, enumMaxColors, enumOptions, enumDone>>

MaxPalette == 5

DuplicateFree(s) == \A i, j \in 1..Len(s) : i # j => s[i] # s[j]

EnumPalettes ==
  UNION {{s \in [1..n -> 1..MaxPalette] : DuplicateFree(s)} : n \in 0..MaxPalette}

EnumInit ==
  /\ enumPalette \in EnumPalettes
  /\ enumMaxColors \in 0..MaxPalette
  /\ enumOptions = <<>>
  /\ enumDone = FALSE

EnumIdle ==
  /\ enumPalette = <<>>
  /\ enumMaxColors = 0
  /\ enumOptions = <<>>
  /\ enumDone = TRUE

EnumeratePaletteOptionsCall ==
  /\ ~enumDone
  /\ enumOptions' = enumeratePaletteOptions(enumPalette, enumMaxColors)
  /\ enumDone' = TRUE
  /\ UNCHANGED <<enumPalette, enumMaxColors>>

(***************************************************************************)
(* index.js: keys, local palettes, dithering, distances                    *)
(***************************************************************************)
colorKey(color) == normalizeColorHex(color)

\* paletteKey: the sorted hex colors; joining them with ',' loses nothing
\* because every hex color has seven characters
paletteKey(palette) ==
  ArraySort([i \in 1..Len(palette) |-> normalizeColorHex(palette[i])] \o <<>>,
            comparatorAscendingStr)

\* a color of no table entry, for the options of the runs
OffTableColor == StrColor(<<"#","f","c","f","c","f","d">>)

\* nesColorMatch, whose cache does not change what a call returns: the entry
\* of the color above, which takes the search, is computed once
offTableMatch == nesColorMatchCompute(OffTableColor)
nesColorMatch(color) ==
  IF color = OffTableColor THEN offTableMatch ELSE nesColorMatchCompute(color)

\* the comparator createPaletteSorter returns.  Two operands that both are
\* the background color are the same value, so their order does not show.
paletteSorter(backgroundColor, a, b) ==
  IF a = backgroundColor /\ b = backgroundColor THEN SORT_A_B_EQUAL
  ELSE IF a = backgroundColor THEN SORT_A_FIRST
  ELSE IF b = backgroundColor THEN SORT_B_FIRST
  ELSE comparatorAscending(ParseHex(nesColorMatch(a)), ParseHex(nesColorMatch(b)))

(***************************************************************************)
(* In the pipeline an image (a tile's ImageData) is the sequence of its    *)
(* pixels, each pixel the <<r, g, b>> that slice(i, i + 3) reads.          *)
(***************************************************************************)
\* getLocalPalette: colorsUsedByKey filled pixel by pixel, then sorted by
\* pixelsUsing, descending.  ident is the identity of the arrays this call
\* creates.
getLocalPalette(pixels, ident) ==
  LET keys == [i \in 1..Len(pixels) |-> colorKey(ArrColor(pixels[i], ident))] \o <<>>
      idx == [i \in 1..Len(pixels) |-> i] \o <<>>
      firsts == SelectSeq(idx, LAMBDA i : \A j \in 1..(i - 1) : keys[j] # keys[i])
      colorsUsed ==
        [n \in 1..Len(firsts) |->
           [key |-> keys[firsts[n]],
            color |-> ArrColor(pixels[firsts[n]], ident),
            pixelsUsing |-> Cardinality({i \in 1..Len(pixels) : keys[i] = keys[firsts[n]]})]]
          \o <<>>
  IN  ArraySort(colorsUsed,
                LAMBDA a, b : comparatorDescending(a.pixelsUsing, b.pixelsUsing))

\* normalizeDitherPalette
normalizeDitherPalette(palette) ==
  [i \in 1..Len(palette) |-> normalizeColor(palette[i])] \o <<>>

\* the global palette, and what normalizeDitherPalette makes of it in every
\* call that dithers with it
globalPalette == [i \in 1..Len(nesColors) |-> StrColor(nesColors[i])] \o <<>>
globalDitherPalette == normalizeDitherPalette(globalPalette)

\* the dithering primitive of ditherjs, which is not part of this program:
\* every pixel becomes the palette color nearest to it (squared RGB
\* distance), the first such color of the palette
SquaredDistance(p, q) ==
  (p[1] - q[1]) * (p[1] - q[1]) + (p[2] - q[2]) * (p[2] - q[2])
    + (p[3] - q[3]) * (p[3] - q[3])

NearestInPalette(pixel, rgbPalette) ==
  LET distances == [i \in 1..Len(rgbPalette) |->
                      SquaredDistance(pixel, rgbPalette[i])] \o <<>>
      nearest == CHOOSE i \in 1..Len(rgbPalette) :
                   \A j \in 1..Len(rgbPalette) :
                     /\ distances[i] <= distances[j]
                     /\ j < i => distances[j] > distances[i]
  IN  rgbPalette[nearest]

\* ditherImageData: a dithered copy of the image
ditherImageData(pixels, palette) ==
  LET rgbPalette == IF palette = globalPalette THEN globalDitherPalette
                    ELSE normalizeDitherPalette(palette)
  IN  [i \in 1..Len(pixels) |-> NearestInPalette(pixels[i], rgbPalette)] \o <<>>

\* imageDataDistance: the sum of colorDistance over the pixels
imageDataDistance(pixelsA, pixelsB) ==
  SeqSum([i \in 1..Len(pixelsA) |->
            colorDistance(ArrColor(pixelsA[i], 0), ArrColor(pixelsB[i], 0))] \o <<>>)

(***************************************************************************)
(* nesify.  The run is modelled from the point where the scaled image is   *)
(* on the canvas.  The pixels the run reads are its inputs: the dithered   *)
(* pixels of a sampling tile are drawn when the tile is sampled, the       *)
(* source pixels of a tile when a subpalette is assigned to it.            *)
(***************************************************************************)
VARIABLES
  pc,                    \* "sample", "select", "assign", "done", "error"
  options,               \* backgroundColor, customPalette, tileSampleWidth,
                         \* tileSampleHeight; width, height of the canvas
  customPaletteColors,   \* the colors parsed from the custom palette
  colorsUsedByKey,       \* color key -> {key, color, tilesUsing, pixelsUsing}
  subpalettesByKey,      \* palette key -> {key, palette, tilesUsing}
  sampled,               \* sampling tiles processed so far
  sampledImgData,        \* their dithered pixels, in the order of processing
  sharedBackgroundColor,
  beforeRepair,          \* subpalettesByKey as the repair step found it
  subpalettes,           \* the candidate pool
  assigned,              \* tiles that have their subpalette
  palettesUsedByKey,
  lastAssigned,          \* what the last iteration of the tile loop did
  error                  \* the message of the exception that ended the run

runVars == <<pc, options, customPaletteColors, colorsUsedByKey,
             subpalettesByKey, sampled, sampledImgData, sharedBackgroundColor,
             beforeRepair, subpalettes, assigned, palettesUsedByKey,
             lastAssigned, error>>

\* the variables of the functions modelled on their own
otherVars == <<matchVars, partVars, enumVars>>

False == [t |-> "false", v |-> <<>>, id |-> 0]

\* JavaScript truthiness of an option or a color
Truthy(x) == x.t \notin {"false", "undef"} /\ ~(x.t = "str" /\ x.v = <<>>)

\* the tile and sampling sizes of the runs modelled (tileWidth = 8,
\* tileHeight = tileWidth, tileSampleWidth = 2 * tileWidth and
\* tileSampleHeight = tileSampleWidth are the defaults of these options)
tileWidth == 2
tileHeight == tileWidth
tileSampleWidth == tileWidth
tileSampleHeight == tileSampleWidth

\* the colors of the pixels of the model's images: four colors of the table,
\* black, a red, a blue and a green
ImageKeys == <<<<"0","f">>, <<"1","6">>, <<"1","2">>, <<"2","a">>>>
ImagePixels ==
  [i \in 1..Len(ImageKeys) |-> normalizeColor(nesPalette(ImageKeys[i]))] \o <<>>

\* the images of n pixels that use the first colors of ImagePixels, each
\* color's pixels together, in the order of ImagePixels
PixelRows(n, colors) ==
  {[i \in 1..n |-> ImagePixels[f[i]]] :
     f \in {g \in [1..n -> 1..colors] :
              \A i \in 1..(n - 1) : g[i] <= g[i + 1]}}

\* the images of n pixels that start with one pixel each of k successive
\* colors of ImagePixels (from any of them, around the end) and go on in the
\* last of these colors
PixelRuns(n) ==
  {[i \in 1..n |->
      ImagePixels[((first + (IF i < k THEN i ELSE k) - 2) % Len(ImagePixels)) + 1]] :
     first \in 1..Len(ImagePixels), k \in 1..Len(ImagePixels)}

SampleImages == PixelRuns(options.tileSampleWidth * options.tileSampleHeight)
TileImages == PixelRows(tileWidth * tileHeight, 2)

\* backgroundColor: none, a color of the image, a color that is neither in
\* the image nor in the table
BackgroundOptions ==
  {False, nesPalette(<<"1","6">>), OffTableColor}

\* a custom palette of two chunks more than the pool can hold when a
\* background color is given with it: chunk i has the i-th, the next and the
\* one after of the table's colors
LongPaletteChunks == SUBPALETTES_PER_IMAGE * 8 + 2
LongCustomPalette ==
  StrColor([p \in 1..(6 * LongPaletteChunks) |->
              MapGet(nesPaletteInverted,
                     nesColors[((p - 1) \div 6) + (((p - 1) % 6) \div 2) + 1])
                [((p - 1) % 2) + 1]] \o <<>>)

\* customPalette: none, one key written in upper case, one chunk, the same
\* with commas between the keys, more than one chunk, more chunks than the
\* pool holds
CustomPaletteOptions ==
  {False,
   LongCustomPalette,
   StrColor(<<"0","F">>),
   StrColor(<<"0","f","1","6","2","a","3","0">>),
   StrColor(<<"0","f",",","1","6",",","2","a",",","3","0">>),
   StrColor(<<"1","6","2","a","1","2","0","f","1","6","3","0">>)}

\* the canvas: one tile, two tiles
CanvasOptions == {<<tileWidth, tileHeight>>, <<2 * tileWidth, tileHeight>>}

\* canvas and sampling size: the canvases above with sampling tiles of the
\* size of a tile, and a canvas of two tiles by two with the sampling size
\* the options default to, twice the tile's, which is the whole canvas
Geometries ==
  {<<canvas[1], canvas[2], tileSampleWidth, tileSampleHeight>> :
     canvas \in CanvasOptions}
  \cup {<<2 * tileWidth, 2 * tileHeight, 2 * tileWidth, 2 * tileWidth>>}

\* the tiles of the canvas (srcImgData here only tells positions)
TileGrid(tw, th) == splitIntoTiles(PositionImage(options.width, options.height), tw, th)

RunInit ==
  /\ pc = "sample"
  /\ \E bg \in BackgroundOptions, cp \in CustomPaletteOptions,
        geometry \in Geometries :
       /\ cp = LongCustomPalette => geometry[2] = tileHeight
       /\ options = [backgroundColor |-> bg, customPalette |-> cp,
                     width |-> geometry[1], height |-> geometry[2],
                     tileSampleWidth |-> geometry[3],
                     tileSampleHeight |-> geometry[4]]
  /\ customPaletteColors = <<>>
  /\ colorsUsedByKey = <<>>
  /\ subpalettesByKey = <<>>
  /\ sampled = 0
  /\ sampledImgData = <<>>
  /\ sharedBackgroundColor = Undefined
  /\ beforeRepair = <<>>
  /\ subpalettes = <<>>
  /\ assigned = 0
  /\ palettesUsedByKey = <<>>
  /\ lastAssigned = <<>>
  /\ error = ""

\* no run of nesify
RunIdle ==
  /\ pc = "done"
  /\ options = [backgroundColor |-> False, customPalette |-> False,
                width |-> tileWidth, height |-> tileHeight,
                tileSampleWidth |-> tileSampleWidth,
                tileSampleHeight |-> tileSampleHeight]
  /\ customPaletteColors = <<>>
  /\ colorsUsedByKey = <<>>
  /\ subpalettesByKey = <<>>
  /\ sampled = 0
  /\ sampledImgData = <<>>
  /\ sharedBackgroundColor = Undefined
  /\ beforeRepair = <<>>
  /\ subpalettes = <<>>
  /\ assigned = 0
  /\ palettesUsedByKey = <<>>
  /\ lastAssigned = <<>>
  /\ error = ""

(***************************************************************************)
(* The custom palette                                                      *)
(***************************************************************************)
\* chunks of four whatever the options
customChunkSizeFour(backgroundColor) == 4

\* chunkSize
customChunkSize(backgroundColor) == IF Truthy(backgroundColor) THEN 3 ELSE 4

\* .replace(/[^0-9a-f]/g, '').match(/(.{2})/g): the pairs of characters, or
\* null (here <<>>) when there is none
customPaletteKeys(customPalette) ==
  LET stripped == SelectSeq(customPalette.v, IsHexChar)
  IN  [i \in 1..(Len(stripped) \div 2) |-> <<stripped[2 * i - 1], stripped[2 * i]>>]
        \o <<>>

\* colorsUsedByKey, empty before, after the loop over the colors: a key is
\* where its first color put it and holds what its last color put there
fillColorsUsed(colors) ==
  LET first(i) == \A j \in 1..(i - 1) : colorKey(colors[j]) # colorKey(colors[i])
      last(i) == CHOOSE j \in i..Len(colors) :
                   /\ colorKey(colors[j]) = colorKey(colors[i])
                   /\ \A k \in (j + 1)..Len(colors) :
                        colorKey(colors[k]) # colorKey(colors[i])
      firsts == SelectSeq([i \in 1..Len(colors) |-> i] \o <<>>, first)
  IN  [n \in 1..Len(firsts) |->
         <<colorKey(colors[firsts[n]]),
           [key |-> colorKey(colors[firsts[n]]), color |-> colors[last(firsts[n])],
            tilesUsing |-> 0, pixelsUsing |-> 0]>>] \o <<>>

\* the subpalette of the chunk that starts after i colors
customSubpalette(colors, i, backgroundColor) ==
  LET chunkSize == customChunkSize(backgroundColor)
      chunk == SubSeq(colors, i + 1,
                      IF i + chunkSize < Len(colors) THEN i + chunkSize
                      ELSE Len(colors))
      palette == IF Truthy(backgroundColor) THEN <<backgroundColor>> \o chunk
                 ELSE chunk
  IN  [key |-> paletteKey(palette), palette |-> palette, tilesUsing |-> 0]

\* subpalettesByKey, empty before, after the loop over the chunks: a key is
\* where its first chunk put it and holds the subpalette of its last chunk
fillSubpalettes(colors, backgroundColor) ==
  LET chunkSize == customChunkSize(backgroundColor)
      all == [c \in 1..((Len(colors) + chunkSize - 1) \div chunkSize) |->
                customSubpalette(colors, (c - 1) * chunkSize, backgroundColor)] \o <<>>
  IN  \* the subpalettes of the chunks are made once, by the binding
      CHOOSE map \in
        {LET first(c) == \A d \in 1..(c - 1) : chunks[d].key # chunks[c].key
             last(c) == CHOOSE d \in c..Len(chunks) :
                          /\ chunks[d].key = chunks[c].key
                          /\ \A e \in (d + 1)..Len(chunks) :
                               chunks[e].key # chunks[c].key
             firsts == SelectSeq([c \in 1..Len(chunks) |-> c] \o <<>>, first)
         IN  [n \in 1..Len(firsts) |->
                <<chunks[firsts[n]].key, chunks[last(firsts[n])]>>] \o <<>> :
         chunks \in {all}} : TRUE

ProcessCustomPalette ==
  /\ pc = "sample"
  /\ Truthy(options.customPalette)
  /\ \E keys \in {customPaletteKeys(options.customPalette)} :
       \E colors \in {[i \in 1..Len(keys) |-> nesPalette(keys[i])] \o <<>>} :
         IF keys = <<>>
         THEN /\ pc' = "error"
              /\ error' = "TypeError"
              /\ UNCHANGED <<customPaletteColors, sharedBackgroundColor,
                             colorsUsedByKey, subpalettesByKey>>
         ELSE /\ pc' = "select"
              /\ customPaletteColors' = colors
              /\ sharedBackgroundColor' = colors[1]
              /\ colorsUsedByKey' = fillColorsUsed(colors)
              /\ subpalettesByKey' = fillSubpalettes(colors, options.backgroundColor)
              /\ error' = error
  /\ UNCHANGED <<options, sampled, sampledImgData, beforeRepair, subpalettes,
                 assigned, palettesUsedByKey, lastAssigned>>
  /\ UNCHANGED otherVars

(***************************************************************************)
(* Sampling: one step per sampling tile                                    *)
(***************************************************************************)
\* the pixels of the last tile that has the color, not their sum
RECURSIVE aggregateColorsLastTile(_, _)
aggregateColorsLastTile(map, localPalette) ==
  IF localPalette = <<>> THEN map
  ELSE LET paletteColor == Head(localPalette)
           key == paletteColor.key
           colorUsed == IF MapHas(map, key) THEN MapGet(map, key)
                        ELSE [key |-> key, color |-> paletteColor.color,
                              tilesUsing |-> 0, pixelsUsing |-> 0]
       IN  aggregateColorsLastTile(
             MapPut(map, key,
                    [colorUsed EXCEPT !.tilesUsing = @ + 1,
                                      !.pixelsUsing = paletteColor.pixelsUsing]),
             Tail(localPalette))

RECURSIVE aggregateColors(_, _)
aggregateColors(map, localPalette) ==
  IF localPalette = <<>> THEN map
  ELSE LET paletteColor == Head(localPalette)
           key == paletteColor.key
           colorUsed == IF MapHas(map, key) THEN MapGet(map, key)
                        ELSE [key |-> key, color |-> paletteColor.color,
                              tilesUsing |-> 0, pixelsUsing |-> 0]
       IN  aggregateColors(
             MapPut(map, key,
                    [colorUsed EXCEPT !.tilesUsing = @ + 1,
                                      !.pixelsUsing = @ + paletteColor.pixelsUsing]),
             Tail(localPalette))

\* a record found in the map starts again at one tile
RECURSIVE aggregateOptionsFromOne(_, _)
aggregateOptionsFromOne(map, paletteOptions) ==
  IF paletteOptions = <<>> THEN map
  ELSE LET paletteOption == Head(paletteOptions)
           key == paletteKey(paletteOption)
       IN  aggregateOptionsFromOne(
             MapPut(map, key, [key |-> key, palette |-> paletteOption,
                               tilesUsing |-> 1]),
             Tail(paletteOptions))

RECURSIVE aggregateOptions(_, _)
aggregateOptions(map, paletteOptions) ==
  IF paletteOptions = <<>> THEN map
  ELSE LET paletteOption == Head(paletteOptions)
           key == paletteKey(paletteOption)
           subpalette == IF MapHas(map, key) THEN MapGet(map, key)
                         ELSE [key |-> key, palette |-> paletteOption,
                               tilesUsing |-> 0]
       IN  aggregateOptions(
             MapPut(map, key, [subpalette EXCEPT !.tilesUsing = @ + 1]),
             Tail(paletteOptions))

\* a value computed once is bound as the only element of a set
SampleTile ==
  /\ pc = "sample"
  /\ ~Truthy(options.customPalette)
  /\ \E tiles \in {TileGrid(options.tileSampleWidth, options.tileSampleHeight)} :
       /\ sampled < Len(tiles)
       /\ sampled' = sampled + 1
       /\ pc' = IF sampled' = Len(tiles) THEN "select" ELSE "sample"
  /\ \E ditheredImgData \in SampleImages :
       \E localPalette \in {getLocalPalette(ditheredImgData, sampled + 1)} :
         \E palette \in {[i \in 1..Len(localPalette) |-> localPalette[i].color] \o <<>>} :
           \E paletteOptions \in {enumeratePaletteOptions(palette, COLORS_PER_SUBPALETTE)} :
             /\ sampledImgData' = Append(sampledImgData, ditheredImgData)
             /\ colorsUsedByKey' = aggregateColors(colorsUsedByKey, localPalette)
             /\ subpalettesByKey' = aggregateOptions(subpalettesByKey, paletteOptions)
  /\ UNCHANGED <<options, customPaletteColors, sharedBackgroundColor,
                 beforeRepair, subpalettes, assigned, palettesUsedByKey,
                 lastAssigned, error>>
  /\ UNCHANGED otherVars

(***************************************************************************)
(* Ranking, background color, repair, filter, pool: one step               *)
(***************************************************************************)
\* colorsUsed: a || b of two comparator results is b when a is 0
rankColors(map) ==
  ArraySort(MapValues(map),
            LAMBDA a, b :
              IF comparatorDescending(a.pixelsUsing, b.pixelsUsing) # 0
              THEN comparatorDescending(a.pixelsUsing, b.pixelsUsing)
              ELSE comparatorDescending(a.tilesUsing, b.tilesUsing))

\* Object.assign(color, { ranking }) on the objects the map holds: every
\* one of them is in colorsUsed, at the place that is its ranking
addRankings(map, colorsUsed) ==
  [n \in 1..Len(map) |->
     LET ranking == (CHOOSE r \in 1..Len(colorsUsed) :
                       colorsUsed[r].key = map[n][1]) - 1
         color == colorsUsed[ranking + 1]
     IN  <<map[n][1],
           [key |-> color.key, color |-> color.color,
            tilesUsing |-> color.tilesUsing,
            pixelsUsing |-> color.pixelsUsing, ranking |-> ranking]>>] \o <<>>

\* a fixed color, the table's white, when no option names the background
selectWhite(backgroundColor, fromCustomPalette, colorsUsed) ==
  IF backgroundColor # False
  THEN ArrColor(normalizeColor(backgroundColor), backgroundColor.id)
  ELSE IF ~Truthy(fromCustomPalette)
  THEN ArrColor(normalizeColor(nesPalette(<<"3", "0">>)), 0)
  ELSE fromCustomPalette

\* the custom palette's first color before anything else
selectCustomFirst(backgroundColor, fromCustomPalette, colorsUsed) ==
  IF Truthy(fromCustomPalette) THEN fromCustomPalette
  ELSE IF backgroundColor # False
  THEN ArrColor(normalizeColor(backgroundColor), backgroundColor.id)
  ELSE colorsUsed[1].color

\* the background color: normalizeColor returns an array it is given and
\* makes a new one (identity 0) of anything else
selectBackgroundColor(backgroundColor, fromCustomPalette, colorsUsed) ==
  IF backgroundColor # False
  THEN ArrColor(normalizeColor(backgroundColor), backgroundColor.id)
  ELSE IF ~Truthy(fromCustomPalette) THEN colorsUsed[1].color
  ELSE fromCustomPalette

\* a.color of a color, which is an array or a string without such a property
colorProperty(a) == Undefined

\* the comparator of the repair step's sort; undefined < undefined is false
repairComparator(a, b) ==
  IF colorProperty(a) = colorProperty(b) THEN SORT_A_B_EQUAL
  ELSE comparatorAscending(colorProperty(a).id, colorProperty(b).id)

\* the repair step with the repaired candidate stored under the new key
\* whether or not the key is there already
RECURSIVE repairOverwriting(_, _, _)
repairOverwriting(map, keys, backgroundColor) ==
  IF keys = <<>> THEN map
  ELSE LET key == Head(keys)
           subpalette == MapGet(map, key)
       IN  IF /\ Len(subpalette.palette) < COLORS_PER_SUBPALETTE
              /\ IndexOf(subpalette.palette, backgroundColor) < 0
           THEN LET palette == ArraySort(subpalette.palette \o <<backgroundColor>>,
                                         repairComparator)
                    repaired == [subpalette EXCEPT !.palette = palette]
                IN  repairOverwriting(
                      MapDelete(MapPut(map, paletteKey(palette), repaired), key),
                      Tail(keys), backgroundColor)
           ELSE repairOverwriting(map, Tail(keys), backgroundColor)

RECURSIVE repairSubpalettes(_, _, _)
repairSubpalettes(map, keys, backgroundColor) ==
  IF keys = <<>> THEN map
  ELSE LET key == Head(keys)
           subpalette == MapGet(map, key)
       IN  IF /\ Len(subpalette.palette) < COLORS_PER_SUBPALETTE
              /\ IndexOf(subpalette.palette, backgroundColor) < 0
           THEN LET palette == ArraySort(subpalette.palette \o <<backgroundColor>>,
                                         repairComparator)
                    repaired == [subpalette EXCEPT !.palette = palette]
                    newKey == paletteKey(palette)
                    stored ==
                      IF MapHas(map, newKey)
                      THEN MapPut(map, newKey,
                                  [MapGet(map, newKey) EXCEPT
                                     !.tilesUsing = @ + repaired.tilesUsing])
                      ELSE MapPut(map, newKey, repaired)
                IN  repairSubpalettes(MapDelete(stored, key), Tail(keys),
                                      backgroundColor)
           ELSE repairSubpalettes(map, Tail(keys), backgroundColor)

\* every subpalette passes
includesAnything(subpalette, backgroundColor) == TRUE

\* the filter's predicate
includesBackgroundColor(subpalette, backgroundColor) ==
  \E i \in 1..Len(subpalette.palette) :
    normalizeColorHex(backgroundColor) = normalizeColorHex(subpalette.palette[i])

filterSubpalettes(map, backgroundColor) ==
  SelectSeq(MapValues(map), LAMBDA s : includesBackgroundColor(s, backgroundColor))

\* the orders a sort with a random comparator can leave an array in: every
\* order of an array of up to MaxShuffled elements; of a longer one the
\* array as it is, reversed, and with its first element moved to the end
MaxShuffled == 4
Shuffles(s) ==
  IF Len(s) <= MaxShuffled
  THEN {[i \in 1..Len(s) |-> s[f[i]]] :
          f \in {g \in [1..Len(s) -> 1..Len(s)] :
                   \A i, j \in 1..Len(s) : i # j => g[i] # g[j]}}
  ELSE {s,
        [i \in 1..Len(s) |-> s[Len(s) + 1 - i]],
        Tail(s) \o <<Head(s)>>}

\* .slice(0, SUBPALETTES_PER_IMAGE), as in the lines commented out
slicePoolTarget(shuffled) ==
  SubSeq(shuffled, 1,
         IF Len(shuffled) < SUBPALETTES_PER_IMAGE THEN Len(shuffled)
         ELSE SUBPALETTES_PER_IMAGE)

\* .slice(0, SUBPALETTES_PER_IMAGE * 8)
slicePool(shuffled) ==
  SubSeq(shuffled, 1,
         IF Len(shuffled) < SUBPALETTES_PER_IMAGE * 8 THEN Len(shuffled)
         ELSE SUBPALETTES_PER_IMAGE * 8)

MapKeys(m) == [i \in 1..Len(m) |-> m[i][1]] \o <<>>

SelectSubpalettes ==
  /\ pc = "select"
  /\ \E colorsUsed \in {rankColors(colorsUsedByKey)} :
       \E background \in {selectBackgroundColor(options.backgroundColor,
                                                sharedBackgroundColor, colorsUsed)} :
         \E repaired \in {IF ~Truthy(options.customPalette)
                          THEN repairSubpalettes(subpalettesByKey,
                                                 MapKeys(subpalettesByKey),
                                                 background)
                          ELSE subpalettesByKey} :
           \E filtered \in {filterSubpalettes(repaired, background)} :
             /\ colorsUsedByKey' = addRankings(colorsUsedByKey, colorsUsed)
             /\ sharedBackgroundColor' = background
             /\ beforeRepair' = subpalettesByKey
             /\ subpalettesByKey' = repaired
             /\ IF Len(filtered) = 0
                THEN /\ pc' = "error"
                     /\ error' = "No color palettes have the background color!"
                     /\ subpalettes' = filtered
                ELSE /\ pc' = "assign"
                     /\ error' = error
                     /\ \E shuffled \in Shuffles(filtered) :
                          subpalettes' = slicePool(shuffled)
  /\ UNCHANGED <<options, customPaletteColors, sampled, sampledImgData,
                 assigned, palettesUsedByKey, lastAssigned>>
  /\ UNCHANGED otherVars

(***************************************************************************)
(* Assignment: one step per tile                                           *)
(***************************************************************************)
\* farthest first
sortOptionsDescending(tileImgDataOptions) ==
  ArraySort(tileImgDataOptions,
            LAMBDA a, b : comparatorDescending(a.distance, b.distance))

sortOptions(tileImgDataOptions) ==
  ArraySort(tileImgDataOptions,
            LAMBDA a, b : comparatorAscending(a.distance, b.distance))

\* one subpalette's version of the tile and its distance from the ideal
\* one; index is the subpalette's place in the pool
tileOption(srcImgData, tileImgData, subpalette, index) ==
  LET subpaletteImgData == ditherImageData(srcImgData, subpalette.palette)
  IN  [distance |-> imageDataDistance(tileImgData, subpaletteImgData),
       index |-> index,
       subpalette |-> subpalette,
       subpaletteImgData |-> subpaletteImgData]

\* tileImgDataOptions
tileOptions(srcImgData, tileImgData, pool) ==
  sortOptions([i \in 1..Len(pool) |->
                 tileOption(srcImgData, tileImgData, pool[i], i)] \o <<>>)

\* the object of the pool is the object the map holds
replaceObject(map, old, new) ==
  [i \in 1..Len(map) |->
     <<map[i][1], IF map[i][2] = old THEN new ELSE map[i][2]>>] \o <<>>

\* the last color of the tile's subpalette becomes the background color
backgroundFromTile(backgroundColor, palette) == palette[Len(palette)]

\* the tile loop reads sharedBackgroundColor and never assigns it
backgroundAfterTile(backgroundColor, palette) == backgroundColor

AssignTile ==
  /\ pc = "assign"
  /\ \E tiles \in {TileGrid(tileWidth, tileHeight)}, srcImgData \in TileImages :
       /\ assigned < Len(tiles)
       /\ assigned' = assigned + 1
       /\ pc' = IF assigned' = Len(tiles) THEN "done" ELSE "assign"
       /\ \E tileImgData \in {ditherImageData(srcImgData, globalPalette)} :
            \E best \in {tileOptions(srcImgData, tileImgData, subpalettes)[1]} :
              \E sorted \in {ArraySort(best.subpalette.palette,
                                       LAMBDA a, b :
                                         paletteSorter(sharedBackgroundColor, a, b))} :
                /\ palettesUsedByKey' =
                     MapPut(palettesUsedByKey, paletteKey(best.subpalette.palette),
                            sorted)
                /\ sharedBackgroundColor' =
                     backgroundAfterTile(sharedBackgroundColor, sorted)
                /\ subpalettes' =
                     [subpalettes EXCEPT ![best.index].palette = sorted]
                /\ subpalettesByKey' =
                     replaceObject(subpalettesByKey, best.subpalette,
                                   [best.subpalette EXCEPT !.palette = sorted])
                /\ lastAssigned' =
                     [tile |-> assigned + 1,
                      srcImgData |-> srcImgData,
                      tileImgData |-> tileImgData,
                      distance |-> best.distance,
                      pool |-> subpalettes,
                      index |-> best.index,
                      position |-> <<tiles[assigned + 1].srcPosition[1],
                                     tiles[assigned + 1].srcPosition[2]>>,
                      written |-> best.subpaletteImgData]
  /\ UNCHANGED <<options, customPaletteColors, colorsUsedByKey, sampled,
                 sampledImgData, beforeRepair, error>>
  /\ UNCHANGED otherVars

\* all the variables of the module
vars == <<matchVars, partVars, enumVars, runVars>>

(***************************************************************************)
(* Properties of enumeratePaletteOptions                                   *)
(***************************************************************************)
RECURSIVE Binomial(_, _)
Binomial(n, k) ==
  IF k = 0 \/ k = n THEN 1
  ELSE IF k > n THEN 0
  ELSE Binomial(n - 1, k - 1) + Binomial(n - 1, k)

PositionIn(palette, color) == CHOOSE i \in 1..Len(palette) : palette[i] = color

InPaletteOrder(list, palette) ==
  /\ \A i \in 1..Len(list) : list[i] \in Range(palette)
  /\ \A i, j \in 1..Len(list) :
       i < j => PositionIn(palette, list[i]) < PositionIn(palette, list[j])

\* C3: for a duplicate-free palette of n colors and 1 <= k <= n,
\* enumeratePaletteOptions(palette, k) returns exactly C(n,k) lists, each of
\* exactly k colors, pairwise distinct as color sets, each listing its colors
\* in the relative order of the palette; 5 colors with k = 4 give 5 lists
\* that each omit exactly one color.
C3_EnumerationExact ==
  (enumDone /\ 1 <= enumMaxColors /\ enumMaxColors <= Len(enumPalette)) =>
    /\ Len(enumOptions) = Binomial(Len(enumPalette), enumMaxColors)
    /\ \A i \in 1..Len(enumOptions) :
         /\ Len(enumOptions[i]) = enumMaxColors
         /\ InPaletteOrder(enumOptions[i], enumPalette)
    /\ \A i, j \in 1..Len(enumOptions) :
         i # j => Range(enumOptions[i]) # Range(enumOptions[j])
    /\ (Len(enumPalette) = 5 /\ enumMaxColors = 4) =>
         /\ Len(enumOptions) = 5
         /\ \A c \in Range(enumPalette) :
              \E i \in 1..Len(enumOptions) :
                Range(enumOptions[i]) = Range(enumPalette) \ {c}

C3_Witness ==
  /\ enumDone
  /\ Len(enumPalette) = 5
  /\ enumMaxColors = 4
  /\ Len(enumOptions) = 5

(***************************************************************************)
(* Properties of splitIntoTiles                                            *)
(***************************************************************************)
\* the least n with n * size >= extent
TilesAcross(extent, size) ==
  CHOOSE n \in 0..extent : n * size >= extent /\ \A m \in 0..(n - 1) : m * size < extent

\* C4: splitIntoTiles returns exactly ceil(W/tw) * ceil(H/th) tiles in
\* row-major order, the tile at grid position (x, y) having origin
\* (x * tw, y * th); a 16x16 image with 8x8 tiles gives 4 tiles in a 2x2 grid.
C4_TileGridRowMajor ==
  partDone =>
    LET nx == TilesAcross(partImage.width, partTile[1])
        ny == TilesAcross(partImage.height, partTile[2])
    IN  /\ Len(partTiles) = nx * ny
        /\ {<<partTiles[n].x, partTiles[n].y>> : n \in 1..Len(partTiles)}
             = (0..(nx - 1)) \X (0..(ny - 1))
        /\ \A n, m \in 1..Len(partTiles) :
             n < m => \/ partTiles[n].y < partTiles[m].y
                      \/ /\ partTiles[n].y = partTiles[m].y
                         /\ partTiles[n].x < partTiles[m].x
        /\ \A n \in 1..Len(partTiles) :
             /\ partTiles[n].srcPosition[1] = partTiles[n].x * partTile[1]
             /\ partTiles[n].srcPosition[2] = partTiles[n].y * partTile[2]
        /\ (partImage.width = 16 /\ partImage.height = 16 /\ partTile = <<8, 8>>) =>
             /\ Len(partTiles) = 4
             /\ [n \in 1..4 |-> <<partTiles[n].x, partTiles[n].y>>]
                  = <<<<0, 0>>, <<1, 0>>, <<0, 1>>, <<1, 1>>>>

C4_Witness ==
  /\ partDone
  /\ partImage.width = 16 /\ partImage.height = 16 /\ partTile = <<8, 8>>
  /\ Len(partTiles) = 4

\* the coordinates a tile reports as its region
TileRegion(t) ==
  (t.srcPosition[1]..(t.srcPosition[1] + t.srcPosition[3] - 1))
    \X (t.srcPosition[2]..(t.srcPosition[2] + t.srcPosition[4] - 1))

ImageRegion(img) == (0..(img.width - 1)) \X (0..(img.height - 1))

\* C5: the regions the tiles report (srcPosition) are pairwise disjoint and
\* their union is exactly [0,W) x [0,H), also when W or H is not a multiple
\* of the tile size.
C5_RegionsPartitionImage ==
  partDone =>
    /\ \A n, m \in 1..Len(partTiles) :
         n # m => TileRegion(partTiles[n]) \cap TileRegion(partTiles[m]) = {}
    /\ UNION {TileRegion(partTiles[n]) : n \in 1..Len(partTiles)}
         = ImageRegion(partImage)

\* 0-based offset of the first byte of pixel (px, py) in an image of width w
PixelOffset(w, px, py) == rgbaOffset(px + py * w)

\* C6: every pixel stored in a tile's srcImgData is the source pixel at
\* (origin.x + i, origin.y + j), that coordinate lying inside the image: no
\* pixel of the following image row and no filler pixel is stored.
C6_CopyClampedToImage ==
  partDone =>
    \A n \in 1..Len(partTiles) :
      LET t == partTiles[n]
      IN  \A i \in 0..(t.srcImgData.width - 1), j \in 0..(t.srcImgData.height - 1) :
            /\ t.srcPosition[1] + i < partImage.width
            /\ t.srcPosition[2] + j < partImage.height
            /\ \A b \in 1..RGBA_BYTES :
                 t.srcImgData.data[PixelOffset(t.srcImgData.width, i, j) + b]
                   = partImage.data[PixelOffset(partImage.width,
                                                t.srcPosition[1] + i,
                                                t.srcPosition[2] + j) + b]

(***************************************************************************)
(* Properties of nesColorMatch                                             *)
(***************************************************************************)
KeysWithValue(hex) == {k \in NesKeys : nesPaletteByKey[k] = hex}

\* C10: nesColorMatch applied to the RGB value of table entry i returns an
\* index with the same RGB value: i itself when the value is unique in the
\* table, the canonical black '0f' when it is pure black; a repeated call
\* with the same input returns the same index.
C10_ExactMatchCanonical ==
  /\ \A n \in 1..Len(matchLog) :
       LET hex == normalizeColorHex(matchLog[n].arg)
           same == KeysWithValue(hex)
       IN  same # {} =>
             /\ matchLog[n].result \in same
             /\ \A i \in same : same = {i} => matchLog[n].result = i
             /\ hex = BlackHex => matchLog[n].result = <<"0", "f">>
  /\ \A n, m \in 1..Len(matchLog) :
       matchLog[n].arg = matchLog[m].arg => matchLog[n].result = matchLog[m].result

C10_Witness ==
  /\ Len(matchLog) = 2
  /\ matchLog[1].arg = nesPalette(<<"1", "d">>)
  /\ matchLog[2].arg = matchLog[1].arg
  /\ matchLog[2].result = <<"0", "f">>

(***************************************************************************)
(* Properties of a run of nesify                                           *)
(***************************************************************************)
NoBackgroundMessage == "No color palettes have the background color!"

\* the run is past the selection of the background color and of the pool
Selected == pc = "assign" \/ assigned > 0 \/ error = NoBackgroundMessage

SameRgb(a, b) == normalizeColor(a) = normalizeColor(b)

HasRgb(palette, color) == \E j \in 1..Len(palette) : SameRgb(palette[j], color)

\* C1: from the start of tile assignment on, in the custom-palette path and
\* in the derived path, with or without a background override, every
\* subpalette of the pool has at most 4 colors, one of which has the RGB
\* value of the shared background color.
C1_PoolHasBackground ==
  (pc = "assign" \/ assigned > 0) =>
    \A i \in 1..Len(subpalettes) :
      /\ Len(subpalettes[i].palette) <= 4
      /\ HasRgb(subpalettes[i].palette, sharedBackgroundColor)

\* a derived run with a background override, a tile assigned, and in the pool
\* a subpalette that the repair step completed with the background color
C1_Witness ==
  /\ assigned > 0
  /\ ~Truthy(options.customPalette)
  /\ options.backgroundColor # False
  /\ \E i \in 1..Len(subpalettes) :
       /\ Len(subpalettes[i].palette) = 4
       /\ ~MapHas(beforeRepair, paletteKey(subpalettes[i].palette))

\* the candidates that contain the background color
WithBackground ==
  {i \in 1..Len(subpalettesByKey) :
     HasRgb(subpalettesByKey[i][2].palette, sharedBackgroundColor)}

\* C2: when no candidate contains the background color after filtering, the
\* run ends with the error, no tile having a subpalette or pixels written;
\* when some candidate does, the error is not raised.
C2_EmptyFilterAborts ==
  /\ error = NoBackgroundMessage =>
       /\ pc = "error"
       /\ WithBackground = {}
       /\ assigned = 0
       /\ palettesUsedByKey = <<>>
       /\ lastAssigned = <<>>
  /\ Selected /\ WithBackground = {} => error = NoBackgroundMessage
  /\ Selected /\ WithBackground # {} => error = "" /\ pc # "error"

\* the run ended with the error, its candidates full without the background
C2_Witness ==
  /\ pc = "error"
  /\ error = NoBackgroundMessage
  /\ Len(subpalettesByKey) > 0
  /\ \A i \in 1..Len(subpalettesByKey) : Len(subpalettesByKey[i][2].palette) = 4

\* C7: the shared background color is the backgroundColor option when it is
\* supplied, with or without a custom palette; otherwise the first color of
\* the custom palette when one is supplied; otherwise the color ranked 0,
\* the ranking being by pixelsUsing, greatest first, and by tilesUsing among
\* equal pixelsUsing.
C7_BackgroundPriority ==
  Selected =>
    IF options.backgroundColor # False
    THEN SameRgb(sharedBackgroundColor, options.backgroundColor)
    ELSE IF Truthy(options.customPalette)
    THEN sharedBackgroundColor = customPaletteColors[1]
    ELSE \E i \in 1..Len(colorsUsedByKey) :
           LET first == colorsUsedByKey[i][2]
           IN  /\ first.ranking = 0
               /\ first.color = sharedBackgroundColor
               /\ \A j \in 1..Len(colorsUsedByKey) :
                    LET other == colorsUsedByKey[j][2]
                    IN  \/ other.pixelsUsing < first.pixelsUsing
                        \/ /\ other.pixelsUsing = first.pixelsUsing
                           /\ other.tilesUsing <= first.tilesUsing

\* a custom palette and a background override that is not its first color
C7_Witness ==
  /\ Selected
  /\ Truthy(options.customPalette)
  /\ options.backgroundColor # False
  /\ ~SameRgb(sharedBackgroundColor, customPaletteColors[1])

\* C8: in the derived path, a candidate with fewer than 4 colors that does
\* not contain the background color is, after the repair step, no longer
\* stored under its old key; under the key of its colors and the background
\* color there is one candidate, one color larger and containing the
\* background color, whose tilesUsing is the candidate's own, or the sum of
\* the two when a candidate was under that key before.
C8_RepairMovesAndMerges ==
  Selected /\ ~Truthy(options.customPalette) =>
    \A i \in 1..Len(beforeRepair) :
      LET key == beforeRepair[i][1]
          candidate == beforeRepair[i][2]
          newKey == paletteKey(candidate.palette \o <<sharedBackgroundColor>>)
      IN  /\ Len(candidate.palette) < 4
          /\ ~HasRgb(candidate.palette, sharedBackgroundColor)
          => /\ ~MapHas(subpalettesByKey, key)
             /\ MapHas(subpalettesByKey, newKey)
             /\ Len(MapGet(subpalettesByKey, newKey).palette)
                  = Len(candidate.palette) + 1
             /\ HasRgb(MapGet(subpalettesByKey, newKey).palette,
                       sharedBackgroundColor)
             /\ MapGet(subpalettesByKey, newKey).tilesUsing =
                  IF MapHas(beforeRepair, newKey)
                  THEN candidate.tilesUsing + MapGet(beforeRepair, newKey).tilesUsing
                  ELSE candidate.tilesUsing

\* C9: the subpalette assigned to a tile is a member of the pool whose
\* dithered version of the tile is no farther from the tile's full-palette
\* version than any other member's, the earliest such member of the pool,
\* and the pixels written at the tile's origin are that member's version.
C9_NearestSubpaletteAssigned ==
  lastAssigned # <<>> =>
    LET pool == lastAssigned.pool
        reference == ditherImageData(lastAssigned.srcImgData, globalPalette)
        version == [i \in 1..Len(pool) |->
                      ditherImageData(lastAssigned.srcImgData, pool[i].palette)] \o <<>>
        distance == [i \in 1..Len(pool) |->
                       imageDataDistance(reference, version[i])] \o <<>>
        tile == TileGrid(tileWidth, tileHeight)[lastAssigned.tile]
    IN  /\ lastAssigned.index \in 1..Len(pool)
        /\ \A i \in 1..Len(pool) :
             /\ distance[lastAssigned.index] <= distance[i]
             /\ i < lastAssigned.index => distance[i] > distance[lastAssigned.index]
        /\ lastAssigned.written = version[lastAssigned.index]
        /\ lastAssigned.position = <<tile.x * tileWidth, tile.y * tileHeight>>
        /\ MapHas(palettesUsedByKey, paletteKey(pool[lastAssigned.index].palette))

\* a tile whose nearest subpalette is the second of two in the pool
C9_Witness ==
  /\ lastAssigned # <<>>
  /\ Len(lastAssigned.pool) = 2
  /\ lastAssigned.index = 2
  /\ lastAssigned.written
       # ditherImageData(lastAssigned.srcImgData, lastAssigned.pool[1].palette)

(***************************************************************************)
(* Further properties                                                      *)
(***************************************************************************)
\* the place of a key in the table as it is written, 00 first
TableIndex(key) == CHOOSE i \in 1..Len(nesPaletteEntries) : nesPaletteEntries[i][1] = key

NoRgbTwice(palette) ==
  \A i, j \in 1..Len(palette) : i # j => ~SameRgb(palette[i], palette[j])

\* C12: in a run without a custom palette no candidate subpalette ever holds
\* the same RGB color at two of its positions: not in the map the sampling
\* tiles are aggregated into, not after the repair step, not in the pool.
C12_NoColorTwice ==
  ~Truthy(options.customPalette) =>
    /\ \A i \in 1..Len(beforeRepair) : NoRgbTwice(beforeRepair[i][2].palette)
    /\ \A i \in 1..Len(subpalettesByKey) : NoRgbTwice(subpalettesByKey[i][2].palette)
    /\ \A i \in 1..Len(subpalettes) : NoRgbTwice(subpalettes[i].palette)

\* the hex colors of an image's pixels, and the pixels of one color
PixelHex(pixel) == colorKey(ArrColor(pixel, 0))
ImageHexes(pixels) == {PixelHex(pixels[i]) : i \in 1..Len(pixels)}
PixelsOfHex(pixels, hex) ==
  Cardinality({i \in 1..Len(pixels) : PixelHex(pixels[i]) = hex})

\* the color sets of the palette options of a tile: all its colors when
\* they are at most 4, otherwise its sets of 4 colors
OptionSets(pixels) ==
  LET hexes == ImageHexes(pixels)
      size == IF Cardinality(hexes) < COLORS_PER_SUBPALETTE
              THEN Cardinality(hexes) ELSE COLORS_PER_SUBPALETTE
  IN  {S \in SUBSET hexes : Cardinality(S) = size}

\* the map of candidates as the sampling tiles filled it
AggregatedSubpalettes == IF Selected THEN beforeRepair ELSE subpalettesByKey

\* C13: in the derived path, for the sampling tiles aggregated, pixelsUsing of
\* a color is the number of its pixels in all of them and tilesUsing the
\* number of them that contain it; there is one candidate record for each
\* canonical key, and its tilesUsing is the number of sampling tiles that
\* have its color set among their options.
C13_UsageCounts ==
  ~Truthy(options.customPalette) =>
    LET tiles == 1..Len(sampledImgData)
        map == AggregatedSubpalettes
    IN  /\ \A n \in tiles : \A hex \in ImageHexes(sampledImgData[n]) :
             MapHas(colorsUsedByKey, hex)
        /\ \A i \in 1..Len(colorsUsedByKey) :
             LET hex == colorsUsedByKey[i][1]
                 used == colorsUsedByKey[i][2]
             IN  /\ used.key = hex
                 /\ colorKey(used.color) = hex
                 /\ used.pixelsUsing =
                      SeqSum([n \in tiles |-> PixelsOfHex(sampledImgData[n], hex)] \o <<>>)
                 /\ used.tilesUsing =
                      Cardinality({n \in tiles : hex \in ImageHexes(sampledImgData[n])})
                 /\ \A j \in 1..Len(colorsUsedByKey) :
                      colorsUsedByKey[j][1] = hex => j = i
        /\ \A n \in tiles : \A S \in OptionSets(sampledImgData[n]) :
             \E i \in 1..Len(map) : Range(map[i][1]) = S
        /\ \A i \in 1..Len(map) :
             LET key == map[i][1]
                 subpalette == map[i][2]
             IN  /\ subpalette.key = key
                 /\ paletteKey(subpalette.palette) = key
                 /\ subpalette.tilesUsing =
                      Cardinality({n \in tiles : Range(key) \in OptionSets(sampledImgData[n])})
                 /\ \A j \in 1..Len(map) : map[j][1] = key => j = i

\* two sampling tiles of the same two or more colors aggregated
C13_Witness ==
  /\ ~Truthy(options.customPalette)
  /\ pc = "select"
  /\ Len(sampledImgData) = 2
  /\ \E i \in 1..Len(colorsUsedByKey) :
       /\ colorsUsedByKey[i][2].tilesUsing = 2
       /\ colorsUsedByKey[i][2].pixelsUsing > 2
  /\ Len(colorsUsedByKey) > 1
  /\ \E i \in 1..Len(subpalettesByKey) : subpalettesByKey[i][2].tilesUsing = 2

\* a string in lower case without its characters that are not hex digits,
\* and the colors of the table for its pairs of digits
HexDigitsOf(chars) ==
  SelectSeq([i \in 1..Len(chars) |-> ToLowerChar(chars[i])] \o <<>>, IsHexChar)
TableColorsOf(chars) ==
  LET digits == HexDigitsOf(chars)
  IN  [i \in 1..(Len(digits) \div 2) |-> nesPalette(<<digits[2 * i - 1], digits[2 * i]>>)]
        \o <<>>

\* C14: the custom palette is read without regard to the case of its
\* letters and to its characters that are not hex digits: the colors parsed,
\* and the subpalettes made of them, are those of the same string in lower
\* case with only its hex digits.
C14_CustomPaletteAnyCase ==
  Truthy(options.customPalette) /\ pc # "sample" =>
    /\ error # "TypeError"
    /\ customPaletteColors = TableColorsOf(options.customPalette.v)
    /\ pc = "select" =>
         subpalettesByKey =
           fillSubpalettes(TableColorsOf(options.customPalette.v),
                           options.backgroundColor)

\* the red and the blue of the table that the images of the runs use
Red == nesPalette(<<"1","6">>)
Blue == nesPalette(<<"1","2">>)
RedAndBlue == {colorKey(Red), colorKey(Blue)}

\* a canvas of two tiles by two that is one sampling tile, every sampling
\* tile red and blue, the background color given as red, no custom palette
RedBlueRun ==
  /\ options.width = 2 * tileWidth /\ options.height = 2 * tileHeight
  /\ options.tileSampleWidth = 2 * tileWidth
  /\ options.tileSampleHeight = 2 * tileWidth
  /\ ~Truthy(options.customPalette)
  /\ options.backgroundColor = Red
  /\ \A n \in 1..Len(sampledImgData) : ImageHexes(sampledImgData[n]) = RedAndBlue

\* C15: in such a run the repair step changes no candidate, the pool is the
\* one candidate {red, blue}, and each of the 4 tiles gets exactly {red, blue}.
C15_RedBlueUntouched ==
  RedBlueRun /\ Selected =>
    /\ MapKeys(subpalettesByKey) = MapKeys(beforeRepair)
    /\ \A i \in 1..Len(subpalettesByKey) :
         Len(subpalettesByKey[i][2].palette) = Len(beforeRepair[i][2].palette)
    /\ Len(subpalettes) = 1
    /\ Len(subpalettes[1].palette) = 2
    /\ {colorKey(subpalettes[1].palette[k]) : k \in 1..2} = RedAndBlue
    /\ \A i \in 1..Len(palettesUsedByKey) :
         /\ Len(palettesUsedByKey[i][2]) = 2
         /\ {colorKey(palettesUsedByKey[i][2][k]) : k \in 1..2} = RedAndBlue

\* every candidate of the aggregated map has the background color by value
ConformingBeforeRepair ==
  \A i \in 1..Len(beforeRepair) :
    HasRgb(beforeRepair[i][2].palette, sharedBackgroundColor)

\* C16: when every candidate already contains the background color by
\* value, the repair step leaves the set of candidates as it is, and
\* repairing its result again does too; no two candidates come to one key.
C16_RepairIdempotent ==
  Selected /\ ~Truthy(options.customPalette) /\ ConformingBeforeRepair =>
    LET once == repairSubpalettes(beforeRepair, MapKeys(beforeRepair),
                                  sharedBackgroundColor)
        twice == repairSubpalettes(once, MapKeys(once), sharedBackgroundColor)
    IN  /\ once = beforeRepair
        /\ twice = once
        /\ assigned = 0 => subpalettesByKey = beforeRepair
        /\ Len(once) = Len(beforeRepair)

\* C17: the shared background color is assigned once in a run and keeps its
\* value from then on.
C17_BackgroundAssignedOnce ==
  [][sharedBackgroundColor # Undefined =>
       SameRgb(sharedBackgroundColor', sharedBackgroundColor)]_vars

\* C17 as amended: the shared background color has its final value when the
\* selection step (after ranking, before repair) is over and no later step
\* changes it; before that, a run with a custom palette holds the first color
\* of the custom palette, which a given backgroundColor then replaces.
C17_BackgroundFixedBySelection ==
  [][/\ Selected => sharedBackgroundColor' = sharedBackgroundColor
     /\ sharedBackgroundColor # Undefined
          /\ ~SameRgb(sharedBackgroundColor', sharedBackgroundColor)
        => /\ pc = "select" /\ Truthy(options.customPalette)
           /\ options.backgroundColor # False
           /\ sharedBackgroundColor = customPaletteColors[1]]_vars

\* tiles assigned in a run with a custom palette and a background color
\* given, where the variable was assigned twice
C17_Witness ==
  /\ assigned > 1
  /\ Truthy(options.customPalette)
  /\ options.backgroundColor # False
  /\ ~SameRgb(sharedBackgroundColor, customPaletteColors[1])

\* the Euclidean distance of two images over red, green and blue, summed
\* over their pixels
EuclideanDistance(pixelsA, pixelsB) ==
  SeqSum([i \in 1..Len(pixelsA) |->
            MathSqrt(SquaredDistance(pixelsA[i], pixelsB[i]))] \o <<>>)

\* C18: the distance by which the subpalettes of a tile are ranked is the
\* sum over the tile's pixels of the Euclidean distance over all three
\* channels between the reference pixel and the candidate's pixel; it is
\* more than 0 when the two images differ.
C18_DistanceAllChannels ==
  lastAssigned # <<>> =>
    /\ lastAssigned.distance =
         EuclideanDistance(lastAssigned.tileImgData, lastAssigned.written)
    /\ lastAssigned.tileImgData # lastAssigned.written => lastAssigned.distance > 0

\* C19: whatever the backgroundColor and customPalette options, every color
\* of every subpalette of the pool is the color of an entry of the table
\* (the global palette being the table's and the dithered pixels being
\* colors of the palette they are dithered to).
C19_PoolColorsInTable ==
  (pc = "assign" \/ assigned > 0) =>
    \A i \in 1..Len(subpalettes) :
      \A k \in 1..Len(subpalettes[i].palette) :
        KeysWithValue(normalizeColorHex(subpalettes[i].palette[k])) # {}

\* the usage totals of the two maps: the counts by key, whatever the order
\* of the keys and the arrays that stand for the colors
ColorTotals(colorsUsed) ==
  {<<colorsUsed[i][1], colorsUsed[i][2].pixelsUsing, colorsUsed[i][2].tilesUsing>> :
     i \in 1..Len(colorsUsed)}
SubpaletteTotals(map) ==
  {<<map[i][1], map[i][2].tilesUsing>> : i \in 1..Len(map)}

\* the two maps after the sampling tiles of a list have been aggregated in
\* the order of the list
RECURSIVE AggregateTiles(_, _, _)
AggregateTiles(images, ident, maps) ==
  IF images = <<>> THEN maps
  ELSE LET localPalette == getLocalPalette(Head(images), ident)
           palette == [i \in 1..Len(localPalette) |-> localPalette[i].color] \o <<>>
       IN  AggregateTiles(Tail(images), ident + 1,
             <<aggregateColors(maps[1], localPalette),
               aggregateOptions(maps[2],
                                enumeratePaletteOptions(palette, COLORS_PER_SUBPALETTE))>>)

\* the orders a list can be put in
Orderings(s) == Shuffles(s)

\* C20: the totals aggregated do not depend on the order in which the
\* sampling tiles are processed: any other order of the same tiles gives the
\* same pixelsUsing and tilesUsing for every color and the same tilesUsing
\* for every candidate key.
C20_TotalsOrderFree ==
  ~Truthy(options.customPalette) =>
    \A images \in Orderings(sampledImgData) :
      LET maps == AggregateTiles(images, 1, <<<<>>, <<>>>>)
      IN  /\ ColorTotals(maps[1]) = ColorTotals(colorsUsedByKey)
          /\ SubpaletteTotals(maps[2]) = SubpaletteTotals(AggregatedSubpalettes)

\* two different sampling tiles with a color in common aggregated
C20_Witness ==
  /\ ~Truthy(options.customPalette)
  /\ pc = "select"
  /\ Len(sampledImgData) = 2
  /\ sampledImgData[1] # sampledImgData[2]
  /\ ImageHexes(sampledImgData[1]) \cap ImageHexes(sampledImgData[2]) # {}
  /\ ImageHexes(sampledImgData[1]) # ImageHexes(sampledImgData[2])

\* a palette whose colors are in strictly ascending order of their value
\* (the order of the hex colors, which is that of the numbers 0xRRGGBB)
AscendingColors(palette) ==
  \A k \in 1..(Len(palette) - 1) :
    comparatorAscendingStr(normalizeColorHex(palette[k]),
                           normalizeColorHex(palette[k + 1])) = SORT_A_FIRST

\* C21: a candidate that lacked the background color and got it appended has
\* its palette sorted again: as the repair step leaves it, the colors of the
\* palette are in ascending order of color value (so the background color is
\* not just left at the end).
C21_RepairedPaletteSorted ==
  Selected /\ ~Truthy(options.customPalette) /\ assigned = 0 =>
    \A i \in 1..Len(beforeRepair) :
      LET candidate == beforeRepair[i][2]
          newKey == paletteKey(candidate.palette \o <<sharedBackgroundColor>>)
      IN  /\ Len(candidate.palette) < COLORS_PER_SUBPALETTE
          /\ ~HasRgb(candidate.palette, sharedBackgroundColor)
          /\ ~MapHas(beforeRepair, newKey)
          => /\ MapHas(subpalettesByKey, newKey)
             /\ AscendingColors(MapGet(subpalettesByKey, newKey).palette)

\* the candidates that pass the filter: those of the map with the background
\* color
FilteredCandidates == {subpalettesByKey[i][2] : i \in WithBackground}

\* C22: the pool of tile assignment is made of filtered candidates, each at
\* most once, and has min(n, 32) of them, n being the number of filtered
\* candidates; the subpalette a tile is assigned is one of the pool, so no
\* more than 32 subpalettes are used in a run.
C22_PoolBounded ==
  (pc = "assign" \/ assigned > 0) =>
    LET n == Cardinality(WithBackground)
    IN  /\ Len(subpalettes) = IF n < 32 THEN n ELSE 32
        /\ \A i \in 1..Len(subpalettes) : subpalettes[i] \in FilteredCandidates
        /\ \A i, j \in 1..Len(subpalettes) :
             i # j => subpalettes[i].key # subpalettes[j].key
        /\ Len(palettesUsedByKey) <= 32
        /\ lastAssigned # <<>> =>
             /\ lastAssigned.index \in 1..Len(subpalettes)
             /\ lastAssigned.pool[lastAssigned.index].key =
                  subpalettes[lastAssigned.index].key
             /\ MapHas(palettesUsedByKey,
                       paletteKey(subpalettes[lastAssigned.index].palette))

\* a run with more filtered candidates than the pool holds, two tiles
\* assigned
C22_Witness ==
  /\ Cardinality(WithBackground) > 32
  /\ Len(subpalettes) = 32
  /\ assigned = 2
  /\ Len(palettesUsedByKey) = 2

\* a run with neither a backgroundColor nor a customPalette option
Automatic == options.backgroundColor = False /\ ~Truthy(options.customPalette)

\* C23: in a run with no backgroundColor and no customPalette the error "No
\* color palettes have the background color!" is not raised: after the
\* selection step some candidate that passes the filter has the top-ranked
\* color, which is the background, and the pool is not empty.
C23_AutomaticNeverEmpty ==
  Automatic =>
    /\ error # NoBackgroundMessage
    /\ pc # "error"
    /\ Selected =>
         /\ SameRgb(sharedBackgroundColor, rankColors(colorsUsedByKey)[1].color)
         /\ WithBackground # {}
         /\ Len(subpalettes) > 0
         /\ \A i \in 1..Len(subpalettes) :
              HasRgb(subpalettes[i].palette, sharedBackgroundColor)

\* an automatic run of two sampling tiles in which a candidate came without
\* the top-ranked color and a tile has a subpalette
C23_Witness ==
  /\ Automatic
  /\ sampled = 2
  /\ assigned > 0
  /\ \E i \in 1..Len(beforeRepair) :
       ~HasRgb(beforeRepair[i][2].palette, sharedBackgroundColor)

\* the entry of the hardware table a color is matched to, as a number
HardwareIndex(color) == ParseHex(nesColorMatch(color))

\* the background color first, the others by ascending hardware index
BackgroundFirstThenAscending(palette) ==
  /\ Len(palette) > 0
  /\ SameRgb(palette[1], sharedBackgroundColor)
  /\ \A k \in 2..(Len(palette) - 1) :
       HardwareIndex(palette[k]) <= HardwareIndex(palette[k + 1])

\* C24: every palette recorded in palettesUsedByKey has the run's background
\* color at index 0 and its other colors after it in ascending order of
\* hardware index.
C24_UsedPalettesSorted ==
  \A i \in 1..Len(palettesUsedByKey) :
    BackgroundFirstThenAscending(palettesUsedByKey[i][2])

\* the sum of tilesUsing over the candidates of a map
TotalTilesUsing(map) == SeqSum([i \in 1..Len(map) |-> map[i][2].tilesUsing] \o <<>>)

\* the keys of a map, as a set
KeySet(map) == {map[i][1] : i \in 1..Len(map)}

\* C25: the repair step conserves tile usage: the sum of tilesUsing over the
\* candidate map is the same after the step as before it, whether a repaired
\* candidate was moved to a fresh key or merged into an existing one.
C25_RepairConservesUsage ==
  Selected /\ ~Truthy(options.customPalette) =>
    TotalTilesUsing(subpalettesByKey) = TotalTilesUsing(beforeRepair)

\* a repair that merged one candidate into an existing key and moved
\* another to a fresh key
C25_Witness ==
  /\ Selected /\ ~Truthy(options.customPalette)
  /\ Len(subpalettesByKey) < Len(beforeRepair)
  /\ KeySet(subpalettesByKey) \ KeySet(beforeRepair) # {}
  /\ TotalTilesUsing(beforeRepair) = 2

(***************************************************************************)
(* Specifications                                                          *)
(***************************************************************************)

\* nesColorMatch called repeatedly
InitMatch == MatchInit /\ PartIdle /\ EnumIdle /\ RunIdle
NextMatch == NesColorMatchCall /\ UNCHANGED <<partVars, enumVars, runVars>>
SpecMatch == InitMatch /\ [][NextMatch]_vars

\* splitIntoTiles on one image
InitTiles == PartInit /\ MatchIdle /\ EnumIdle /\ RunIdle
NextTiles == SplitIntoTilesCall /\ UNCHANGED <<matchVars, enumVars, runVars>>
SpecTiles == InitTiles /\ [][NextTiles]_vars

\* enumeratePaletteOptions on one palette
InitEnum == EnumInit /\ MatchIdle /\ PartIdle /\ RunIdle
NextEnum == EnumeratePaletteOptionsCall /\ UNCHANGED <<matchVars, partVars, runVars>>
SpecEnum == InitEnum /\ [][NextEnum]_vars

\* one run of nesify
Init == RunInit /\ MatchIdle /\ PartIdle /\ EnumIdle
Next ==
  \/ ProcessCustomPalette
  \/ SampleTile
  \/ SelectSubpalettes
  \/ AssignTile
Spec == Init /\ [][Next]_vars

=============================================================================
